---- MODULE Spec2Model ----
(***************************************************************************)
(* The wire codec of common.MajorType (Types.pb.cc): enum validation,      *)
(* presence bits, encode, decode, size computation, merge, clear, swap.    *)
(*                                                                         *)
(* A byte is an integer 0..255 and a buffer is a sequence of bytes.        *)
(* An int32 field is an integer of 32 bits.  A uint64 is held as its       *)
(* base-128 digits, least significant first, without trailing zero digits  *)
(* (at least one digit, at most ten, the tenth being 0 or 1): this is the  *)
(* payload of its shortest varint.                                         *)
(***************************************************************************)
EXTENDS Integers, Sequences, FiniteSets, TLC

VARIABLES
    msg,      \* the MajorType instance the operations are called on (this)
    from,     \* a second MajorType instance (the argument of merge, copy, swap)
    input,    \* the bytes behind the CodedInputStream
    output,   \* the bytes written to the CodedOutputStream
    call,     \* the last call: its name, argument, return value, the instances before it
    wire,     \* the fields a peer put into input, as the catalogue describes them
    threads,  \* per thread: its call stack, the calls it made, what it last returned from
    once,     \* the two once_flag objects
    ran       \* how often each registration body was started and finished

vars == <<msg, from, input, output, call, wire, threads, once, ran>>

\* the state of the schema registration
regvars == <<threads, once, ran>>

\* the state of the descriptors and streams
codecvars == <<msg, from, input, output, call, wire>>

----------------------------------------------------------------------------
(* Schema registration: AddDescriptors and protobuf_AssignDescriptorsOnce   *)
(* guard their bodies with a once_flag each. A thread is at the frame on    *)
(* top of its stack:                                                        *)
(*   "AddDescriptors"                  at call_once(once, AddDescriptorsImpl) *)
(*   "AddDescriptorsImpl"              in the body, the flag being its own  *)
(*   "protobuf_AssignDescriptorsOnce"  at call_once(once,                   *)
(*                                     protobuf_AssignDescriptors)          *)
(*   "protobuf_AssignDescriptors"      in the body, before AddDescriptors() *)
(*   "AssignDescriptors"               in the body, after AddDescriptors()  *)
(* Thread 0 is the dynamic initializer (static_descriptor_initializer).     *)

NumThreads == 2
MaxCalls == 2

Threads == 0..NumThreads

\* call_once that tests the flag for "done" only and takes no lock
call_once_unlocked(flag) == IF flag = "done" THEN "return" ELSE "run"

\* call_once(flag, f): what the caller does on finding the flag in a state
call_once(flag) ==
    CASE flag = "done" -> "return"
      [] flag = "uninit" -> "run"
      [] flag = "running" -> "wait"

Idle == [stack |-> <<>>, calls |-> 0, last |-> "none"]

\* registration as the dynamic initializer leaves it before main
Registered ==
    /\ threads = [t \in Threads |-> Idle]
    /\ once = [AddDescriptors |-> "done", protobuf_AssignDescriptorsOnce |-> "uninit"]
    /\ ran = [AddDescriptorsImpl |-> [started |-> 1, finished |-> 1],
              protobuf_AssignDescriptors |-> [started |-> 0, finished |-> 0]]

----------------------------------------------------------------------------
(* Integers and varints (protobuf runtime, as the generated code calls it). *)

Int32Min == (0 - 1073741824) - 1073741824
Int32Max == 1073741823 + 1073741824

Min(a, b) == IF a < b THEN a ELSE b

RECURSIVE Trim(_)
Trim(d) ==
    IF Len(d) > 1 /\ d[Len(d)] = 0 THEN Trim(SubSeq(d, 1, Len(d) - 1)) ELSE d

RECURSIVE Digits(_, _)
\* the k low base-128 digits of the two's complement pattern of v
Digits(v, k) ==
    IF k = 0 THEN <<>> ELSE <<v % 128>> \o Digits(v \div 128, k - 1)

\* static_cast<uint64>(int): sign extension of an int32 to 64 bits
SignExtend(v) ==
    IF v >= 0 THEN Trim(Digits(v, 5)) ELSE Digits(v, 9) \o <<1>>

\* static_cast<int32>(uint32(x)) of a uint64 x: the low 32 bits, read as signed
Low32(d) ==
    LET x == [i \in 1..5 |-> IF i <= Len(d) THEN d[i] ELSE 0]
        low28 == x[1] + 128 * x[2] + 16384 * x[3] + 2097152 * x[4]
        top == x[5] % 16
    IN  IF top < 8 THEN low28 + top * 268435456
        ELSE ((low28 + (top - 8) * 268435456) - 1073741824) - 1073741824

\* io::CodedOutputStream::WriteVarint64
WriteVarint64(d) ==
    [i \in 1..Len(d) |-> IF i < Len(d) THEN d[i] + 128 ELSE d[i]]

\* io::CodedOutputStream::VarintSize64
VarintSize64(d) == Len(d)

\* io::CodedOutputStream::WriteVarint32SignExtended
WriteVarint32SignExtended(v) == WriteVarint64(SignExtend(v))

\* io::CodedOutputStream::WriteVarint32 of a value below 2^31 (tags, lengths)
WriteVarint32(n) == WriteVarint64(Trim(Digits(n, 5)))

VarintSize32(n) == Len(Trim(Digits(n, 5)))

\* the index of the byte that ends the varint starting at pos: the first byte
\* without the continuation bit among the ten from pos; 0 when there is none
VarintEnd(bytes, pos) ==
    LET ends == {j \in pos..Min(Len(bytes), pos + 9) : bytes[j] < 128}
    IN  IF ends = {} THEN 0 ELSE CHOOSE j \in ends : \A k \in ends : j <= k

\* the 64 bits of the varint in bytes[pos..end]: seven bits a byte, one bit of
\* the tenth byte
VarintValue(bytes, pos, end) ==
    Trim([i \in 1..(end - pos + 1) |->
            IF i = 10 THEN bytes[pos + i - 1] % 2 ELSE bytes[pos + i - 1] % 128])

ReadVarintUpTo(bytes, pos, end) ==
    IF end = 0 THEN [ok |-> FALSE, value |-> <<0>>, pos |-> pos]
    ELSE [ok |-> TRUE, value |-> VarintValue(bytes, pos, end), pos |-> end + 1]

\* io::CodedInputStream::ReadVarint64: at most ten bytes, the last one without
\* the continuation bit; fails on a buffer that ends first
ReadVarint64(bytes, pos) == ReadVarintUpTo(bytes, pos, VarintEnd(bytes, pos))

Truncate(r) == [ok |-> r.ok, value |-> Low32(r.value), pos |-> r.pos]

\* io::CodedInputStream::ReadVarint32: the varint's low 32 bits
ReadVarint32(bytes, pos) == Truncate(ReadVarint64(bytes, pos))

----------------------------------------------------------------------------
(* Wire format                                                              *)

WIRETYPE_VARINT == 0
WIRETYPE_FIXED64 == 1
WIRETYPE_LENGTH_DELIMITED == 2
WIRETYPE_START_GROUP == 3
WIRETYPE_END_GROUP == 4
WIRETYPE_FIXED32 == 5

kMinorTypeFieldNumber == 1
kModeFieldNumber == 2
kWidthFieldNumber == 3
kPrecisionFieldNumber == 4
kScaleFieldNumber == 5
kTimeZoneFieldNumber == 6
kSubTypeFieldNumber == 7

\* WireFormatLite::MakeTag
MakeTag(number, type) == number * 8 + type

\* WireFormatLite::GetTagFieldNumber: tag >> 3 of the uint32 whose bit pattern is tag
GetTagFieldNumber(tag) ==
    IF tag >= 0 THEN tag \div 8 ELSE (tag \div 8) + 536870912

\* WireFormatLite::GetTagWireType: tag & 7
GetTagWireType(tag) == tag % 8

\* WireFormatLite::WriteTag
WriteTag(number, type) == WriteVarint32(MakeTag(number, type))

\* WireFormatLite::WriteEnum
WriteEnum(number, value) ==
    WriteTag(number, WIRETYPE_VARINT) \o WriteVarint32SignExtended(value)

\* WireFormatLite::WriteInt32
WriteInt32(number, value) ==
    WriteTag(number, WIRETYPE_VARINT) \o WriteVarint32SignExtended(value)

\* Int32Size as if a negative value were written in five bytes
Int32SizeUnsigned(value) == IF value < 0 THEN 5 ELSE VarintSize32(value)

\* WireFormatLite::Int32Size: ten bytes for a negative value
Int32Size(value) == IF value < 0 THEN 10 ELSE VarintSize32(value)

\* WireFormatLite::EnumSize
EnumSize(value) == IF value < 0 THEN 10 ELSE VarintSize32(value)

----------------------------------------------------------------------------
(* Enum validation                                                          *)

\* MinorType_IsValid as a range check that forgets the retired numbers
MinorTypeInRange(value) == value \in 0..44

MinorType_IsValid(value) ==
    value \in {0, 1, 3, 4, 5, 6, 7, 8, 9, 10, 11, 12, 13, 14, 15, 16, 17, 18, 19,
               20, 21, 22, 23, 24, 25, 26, 29, 30, 31, 32, 33, 34, 37, 38, 39,
               40, 41, 42, 43, 44}

DataMode_IsValid(value) == value \in {0, 1, 2}

----------------------------------------------------------------------------
(* The unknown-field store: a sequence of records                           *)
(*   [number, type, value, group]                                           *)
(* type "VARINT": value is a uint64 (digits); "FIXED32" / "FIXED64": the 4  *)
(* or 8 bytes; "LENGTH_DELIMITED": the bytes; "GROUP": group is the group's *)
(* own sequence of records (empty for the other types).                     *)

\* UnknownFieldSet::AddVarint
AddVarint(unknown, number, value) ==
    Append(unknown, [number |-> number, type |-> "VARINT", value |-> value,
                     group |-> <<>>])

\* UnknownFieldSet::AddFixed32
AddFixed32(unknown, number, bytes) ==
    Append(unknown, [number |-> number, type |-> "FIXED32", value |-> bytes,
                     group |-> <<>>])

\* UnknownFieldSet::AddFixed64
AddFixed64(unknown, number, bytes) ==
    Append(unknown, [number |-> number, type |-> "FIXED64", value |-> bytes,
                     group |-> <<>>])

\* UnknownFieldSet::AddLengthDelimited
AddLengthDelimited(unknown, number, bytes) ==
    Append(unknown, [number |-> number, type |-> "LENGTH_DELIMITED",
                     value |-> bytes, group |-> <<>>])

\* UnknownFieldSet::AddGroup
AddGroup(unknown, number, group) ==
    Append(unknown, [number |-> number, type |-> "GROUP", value |-> <<>>,
                     group |-> group])

RECURSIVE SerializeUnknownFields(_)
\* WireFormat::SerializeUnknownFields: every record in order, in its own wire type
SerializeUnknownFields(unknown) ==
    IF Len(unknown) = 0 THEN <<>>
    ELSE LET f == Head(unknown)
             one ==
                 CASE f.type = "VARINT" ->
                        WriteTag(f.number, WIRETYPE_VARINT) \o WriteVarint64(f.value)
                   [] f.type = "FIXED32" ->
                        WriteTag(f.number, WIRETYPE_FIXED32) \o f.value
                   [] f.type = "FIXED64" ->
                        WriteTag(f.number, WIRETYPE_FIXED64) \o f.value
                   [] f.type = "LENGTH_DELIMITED" ->
                        WriteTag(f.number, WIRETYPE_LENGTH_DELIMITED)
                            \o WriteVarint32(Len(f.value)) \o f.value
                   [] f.type = "GROUP" ->
                        WriteTag(f.number, WIRETYPE_START_GROUP)
                            \o SerializeUnknownFields(f.group)
                            \o WriteTag(f.number, WIRETYPE_END_GROUP)
         IN  one \o SerializeUnknownFields(Tail(unknown))

RECURSIVE ComputeUnknownFieldsSize(_)
\* WireFormat::ComputeUnknownFieldsSize
ComputeUnknownFieldsSize(unknown) ==
    IF Len(unknown) = 0 THEN 0
    ELSE LET f == Head(unknown)
             one ==
                 CASE f.type = "VARINT" ->
                        VarintSize32(MakeTag(f.number, WIRETYPE_VARINT))
                            + VarintSize64(f.value)
                   [] f.type = "FIXED32" ->
                        VarintSize32(MakeTag(f.number, WIRETYPE_FIXED32)) + 4
                   [] f.type = "FIXED64" ->
                        VarintSize32(MakeTag(f.number, WIRETYPE_FIXED64)) + 8
                   [] f.type = "LENGTH_DELIMITED" ->
                        VarintSize32(MakeTag(f.number, WIRETYPE_LENGTH_DELIMITED))
                            + VarintSize32(Len(f.value)) + Len(f.value)
                   [] f.type = "GROUP" ->
                        VarintSize32(MakeTag(f.number, WIRETYPE_START_GROUP))
                            + ComputeUnknownFieldsSize(f.group)
                            + VarintSize32(MakeTag(f.number, WIRETYPE_END_GROUP))
         IN  one + ComputeUnknownFieldsSize(Tail(unknown))

----------------------------------------------------------------------------
(* MajorType: the presence bitmask _has_bits_[0], the six scalar storages,  *)
(* the repeated field and the unknown-field store of _internal_metadata_.   *)

\* MajorType::MajorType / SharedCtor: everything zero and empty
SharedCtor ==
    [has_bits |-> 0, minor_type_ |-> 0, mode_ |-> 0, width_ |-> 0,
     precision_ |-> 0, scale_ |-> 0, timezone_ |-> 0,
     sub_type_ |-> <<>>, unknown_fields |-> <<>>]

\* cached_has_bits & mask, for a one-bit mask
HasBit(bits, mask) == (bits \div mask) % 2 = 1

\* bits | mask, for a one-bit mask
OrBit(bits, mask) == IF HasBit(bits, mask) THEN bits ELSE bits + mask

RECURSIVE OrBits(_, _, _)
\* a | b on the bits from mask upwards
OrBits(a, b, mask) ==
    IF mask > 32 THEN 0
    ELSE (IF HasBit(a, mask) \/ HasBit(b, mask) THEN mask ELSE 0)
             + OrBits(a, b, 2 * mask)

has_minor_type(m) == HasBit(m.has_bits, 1)
has_mode(m) == HasBit(m.has_bits, 2)
has_width(m) == HasBit(m.has_bits, 4)
has_precision(m) == HasBit(m.has_bits, 8)
has_scale(m) == HasBit(m.has_bits, 16)
has_timezone(m) == HasBit(m.has_bits, 32)

set_has_width(m) == [m EXCEPT !.has_bits = OrBit(@, 4)]
set_has_precision(m) == [m EXCEPT !.has_bits = OrBit(@, 8)]
set_has_scale(m) == [m EXCEPT !.has_bits = OrBit(@, 16)]
set_has_timezone(m) == [m EXCEPT !.has_bits = OrBit(@, 32)]

set_minor_type(m, value) ==
    [m EXCEPT !.has_bits = OrBit(@, 1), !.minor_type_ = value]
set_mode(m, value) ==
    [m EXCEPT !.has_bits = OrBit(@, 2), !.mode_ = value]
set_width(m, value) == [set_has_width(m) EXCEPT !.width_ = value]
set_precision(m, value) == [set_has_precision(m) EXCEPT !.precision_ = value]
set_scale(m, value) == [set_has_scale(m) EXCEPT !.scale_ = value]
set_timezone(m, value) == [set_has_timezone(m) EXCEPT !.timezone_ = value]
add_sub_type(m, value) == [m EXCEPT !.sub_type_ = Append(@, value)]

\* Clear without the memset of the scalar storage
ClearWithoutMemset(m) ==
    [m EXCEPT !.sub_type_ = <<>>, !.has_bits = 0, !.unknown_fields = <<>>]

\* MajorType::Clear
Clear(m) ==
    LET cached_has_bits == m.has_bits
        zeroed == IF cached_has_bits % 64 # 0
                  THEN [m EXCEPT !.minor_type_ = 0, !.mode_ = 0, !.width_ = 0,
                                 !.precision_ = 0, !.scale_ = 0, !.timezone_ = 0]
                  ELSE m
    IN  [zeroed EXCEPT !.sub_type_ = <<>>, !.has_bits = 0, !.unknown_fields = <<>>]

\* MergeFrom with _has_bits_[0] = cached_has_bits in place of |=
MergeFromAssigningBits(m, f) ==
    [m EXCEPT !.unknown_fields = @ \o f.unknown_fields,
              !.sub_type_ = @ \o f.sub_type_,
              !.minor_type_ = IF HasBit(f.has_bits, 1) THEN f.minor_type_ ELSE @,
              !.mode_ = IF HasBit(f.has_bits, 2) THEN f.mode_ ELSE @,
              !.width_ = IF HasBit(f.has_bits, 4) THEN f.width_ ELSE @,
              !.precision_ = IF HasBit(f.has_bits, 8) THEN f.precision_ ELSE @,
              !.scale_ = IF HasBit(f.has_bits, 16) THEN f.scale_ ELSE @,
              !.timezone_ = IF HasBit(f.has_bits, 32) THEN f.timezone_ ELSE @,
              !.has_bits = IF f.has_bits % 64 # 0 THEN f.has_bits ELSE @]

\* MajorType::MergeFrom(const MajorType& from)
MergeFrom(m, f) ==
    LET cached_has_bits == f.has_bits
        merged == [m EXCEPT !.unknown_fields = @ \o f.unknown_fields,
                            !.sub_type_ = @ \o f.sub_type_]
    IN  IF cached_has_bits % 64 # 0
        THEN [merged EXCEPT
                 !.minor_type_ = IF HasBit(cached_has_bits, 1) THEN f.minor_type_ ELSE @,
                 !.mode_ = IF HasBit(cached_has_bits, 2) THEN f.mode_ ELSE @,
                 !.width_ = IF HasBit(cached_has_bits, 4) THEN f.width_ ELSE @,
                 !.precision_ = IF HasBit(cached_has_bits, 8) THEN f.precision_ ELSE @,
                 !.scale_ = IF HasBit(cached_has_bits, 16) THEN f.scale_ ELSE @,
                 !.timezone_ = IF HasBit(cached_has_bits, 32) THEN f.timezone_ ELSE @,
                 !.has_bits = OrBits(@, cached_has_bits, 1)]
        ELSE merged

\* MajorType::CopyFrom(const MajorType& from), from being another instance
CopyFrom(m, f) == MergeFrom(Clear(m), f)

\* MajorType::InternalSwap: the pair (this, other) after the swap
InternalSwap(m, other) == <<other, m>>

RECURSIVE WriteSubTypes(_)
\* the loop over sub_type: one tag and varint per entry
WriteSubTypes(list) ==
    IF Len(list) = 0 THEN <<>>
    ELSE WriteEnum(kSubTypeFieldNumber, Head(list)) \o WriteSubTypes(Tail(list))

\* SerializeWithCachedSizes as if a scalar were written only when it is not
\* zero, whatever its presence bit says
SerializeSkippingZeros(m) ==
    (IF has_minor_type(m) /\ m.minor_type_ # 0
        THEN WriteEnum(kMinorTypeFieldNumber, m.minor_type_) ELSE <<>>)
    \o (IF has_mode(m) /\ m.mode_ # 0
        THEN WriteEnum(kModeFieldNumber, m.mode_) ELSE <<>>)
    \o (IF has_width(m) /\ m.width_ # 0
        THEN WriteInt32(kWidthFieldNumber, m.width_) ELSE <<>>)
    \o (IF has_precision(m) /\ m.precision_ # 0
        THEN WriteInt32(kPrecisionFieldNumber, m.precision_) ELSE <<>>)
    \o (IF has_scale(m) /\ m.scale_ # 0
        THEN WriteInt32(kScaleFieldNumber, m.scale_) ELSE <<>>)
    \o (IF has_timezone(m) /\ m.timezone_ # 0
        THEN WriteInt32(kTimeZoneFieldNumber, m.timezone_) ELSE <<>>)
    \o WriteSubTypes(m.sub_type_)
    \o SerializeUnknownFields(m.unknown_fields)

\* MajorType::SerializeWithCachedSizes
SerializeWithCachedSizes(m) ==
    LET cached_has_bits == m.has_bits
    IN  (IF HasBit(cached_has_bits, 1)
            THEN WriteEnum(kMinorTypeFieldNumber, m.minor_type_) ELSE <<>>)
        \o (IF HasBit(cached_has_bits, 2)
            THEN WriteEnum(kModeFieldNumber, m.mode_) ELSE <<>>)
        \o (IF HasBit(cached_has_bits, 4)
            THEN WriteInt32(kWidthFieldNumber, m.width_) ELSE <<>>)
        \o (IF HasBit(cached_has_bits, 8)
            THEN WriteInt32(kPrecisionFieldNumber, m.precision_) ELSE <<>>)
        \o (IF HasBit(cached_has_bits, 16)
            THEN WriteInt32(kScaleFieldNumber, m.scale_) ELSE <<>>)
        \o (IF HasBit(cached_has_bits, 32)
            THEN WriteInt32(kTimeZoneFieldNumber, m.timezone_) ELSE <<>>)
        \o WriteSubTypes(m.sub_type_)
        \o (IF Len(m.unknown_fields) # 0
            THEN SerializeUnknownFields(m.unknown_fields) ELSE <<>>)

RECURSIVE SubTypeDataSize(_)
\* the data_size loop of ByteSizeLong
SubTypeDataSize(list) ==
    IF Len(list) = 0 THEN 0
    ELSE EnumSize(Head(list)) + SubTypeDataSize(Tail(list))

\* WriteEnumToArray writing the packed form: one tag, the byte length, the values
WriteEnumToArrayPacked(number, list) ==
    IF Len(list) = 0 THEN <<>>
    ELSE WriteTag(number, WIRETYPE_LENGTH_DELIMITED)
             \o WriteVarint32(SubTypeDataSize(list))
             \o [i \in 1..Len(list) |-> list[i]]

\* WireFormatLite::WriteEnumToArray(7, sub_type_, target): the repeated form,
\* one tag and varint per entry
WriteEnumToArray(number, list) ==
    IF number = kSubTypeFieldNumber THEN WriteSubTypes(list) ELSE <<>>

\* MajorType::InternalSerializeWithCachedSizesToArray
InternalSerializeWithCachedSizesToArray(m) ==
    LET cached_has_bits == m.has_bits
    IN  (IF HasBit(cached_has_bits, 1)
            THEN WriteEnum(kMinorTypeFieldNumber, m.minor_type_) ELSE <<>>)
        \o (IF HasBit(cached_has_bits, 2)
            THEN WriteEnum(kModeFieldNumber, m.mode_) ELSE <<>>)
        \o (IF HasBit(cached_has_bits, 4)
            THEN WriteInt32(kWidthFieldNumber, m.width_) ELSE <<>>)
        \o (IF HasBit(cached_has_bits, 8)
            THEN WriteInt32(kPrecisionFieldNumber, m.precision_) ELSE <<>>)
        \o (IF HasBit(cached_has_bits, 16)
            THEN WriteInt32(kScaleFieldNumber, m.scale_) ELSE <<>>)
        \o (IF HasBit(cached_has_bits, 32)
            THEN WriteInt32(kTimeZoneFieldNumber, m.timezone_) ELSE <<>>)
        \o WriteEnumToArray(kSubTypeFieldNumber, m.sub_type_)
        \o (IF Len(m.unknown_fields) # 0
            THEN SerializeUnknownFields(m.unknown_fields) ELSE <<>>)

\* MajorType::ByteSizeLong
ByteSizeLong(m) ==
    (IF Len(m.unknown_fields) # 0
        THEN ComputeUnknownFieldsSize(m.unknown_fields) ELSE 0)
    + (1 * Len(m.sub_type_) + SubTypeDataSize(m.sub_type_))
    + (IF m.has_bits % 64 # 0
       THEN (IF has_minor_type(m) THEN 1 + EnumSize(m.minor_type_) ELSE 0)
            + (IF has_mode(m) THEN 1 + EnumSize(m.mode_) ELSE 0)
            + (IF has_width(m) THEN 1 + Int32Size(m.width_) ELSE 0)
            + (IF has_precision(m) THEN 1 + Int32Size(m.precision_) ELSE 0)
            + (IF has_scale(m) THEN 1 + Int32Size(m.scale_) ELSE 0)
            + (IF has_timezone(m) THEN 1 + Int32Size(m.timezone_) ELSE 0)
       ELSE 0)

----------------------------------------------------------------------------
(* Decode.  A reader returns [ok, ..., pos]: pos is the index of the next   *)
(* unread byte of the buffer.                                               *)

TagRead(r) ==
    IF ~r.ok THEN [tag |-> 0, second |-> FALSE, pos |-> r.pos]
    ELSE [tag |-> r.value, second |-> r.value \in 1..127, pos |-> r.pos]

\* CodedInputStream::ReadTagWithCutoffNoLastTag(127u): the pair (tag, tag is in
\* 1..127); tag 0 at the end of the buffer, for a zero byte and for a tag
\* varint that cannot be read
ReadTagWithCutoffNoLastTag(bytes, pos) ==
    IF pos > Len(bytes) THEN [tag |-> 0, second |-> FALSE, pos |-> pos]
    ELSE IF bytes[pos] \in 1..127
    THEN [tag |-> bytes[pos], second |-> TRUE, pos |-> pos + 1]
    ELSE TagRead(ReadVarint32(bytes, pos))

\* CodedInputStream::ReadLittleEndian32 / ReadLittleEndian64: n raw bytes
ReadLittleEndian(bytes, pos, n) ==
    IF pos + n - 1 <= Len(bytes)
    THEN [ok |-> TRUE, value |-> SubSeq(bytes, pos, pos + n - 1), pos |-> pos + n]
    ELSE [ok |-> FALSE, value |-> <<>>, pos |-> pos]

\* SkipField, WIRETYPE_VARINT: r is what ReadVarint64 returned
SkipVarint(unknown, number, r) ==
    [ok |-> r.ok, pos |-> r.pos,
     unknown |-> IF r.ok THEN AddVarint(unknown, number, r.value) ELSE unknown]

\* SkipField, WIRETYPE_FIXED64: r is what ReadLittleEndian64 returned
SkipFixed64(unknown, number, r) ==
    [ok |-> r.ok, pos |-> r.pos,
     unknown |-> IF r.ok THEN AddFixed64(unknown, number, r.value) ELSE unknown]

\* SkipField, WIRETYPE_FIXED32: r is what ReadLittleEndian32 returned
SkipFixed32(unknown, number, r) ==
    [ok |-> r.ok, pos |-> r.pos,
     unknown |-> IF r.ok THEN AddFixed32(unknown, number, r.value) ELSE unknown]

\* SkipField, WIRETYPE_LENGTH_DELIMITED: r is what ReadVarint32 returned for the
\* length; ReadString fills the record AddLengthDelimited has added, and fails
\* on a negative length and on a buffer shorter than the length
SkipLengthDelimited(bytes, unknown, number, r) ==
    IF ~r.ok THEN [ok |-> FALSE, unknown |-> unknown, pos |-> r.pos]
    ELSE IF r.value < 0
    THEN [ok |-> FALSE, pos |-> r.pos,
          unknown |-> AddLengthDelimited(unknown, number, <<>>)]
    ELSE IF r.pos + r.value - 1 > Len(bytes)
    THEN [ok |-> FALSE, pos |-> Len(bytes) + 1,
          unknown |-> AddLengthDelimited(unknown, number,
                          SubSeq(bytes, r.pos, Len(bytes)))]
    ELSE [ok |-> TRUE, pos |-> r.pos + r.value,
          unknown |-> AddLengthDelimited(unknown, number,
                          SubSeq(bytes, r.pos, r.pos + r.value - 1))]

\* SkipField, WIRETYPE_START_GROUP: g is what SkipMessage returned for the
\* group; the tag that ended it must be the end-group tag of the same number
SkipGroup(unknown, number, g) ==
    [ok |-> g.ok /\ g.last_tag = MakeTag(number, WIRETYPE_END_GROUP),
     pos |-> g.pos,
     unknown |-> AddGroup(unknown, number, g.unknown)]

RECURSIVE SkipField(_, _, _, _)
RECURSIVE SkipMessage(_, _, _)
RECURSIVE SkipFields(_, _, _)
RECURSIVE SkipNext(_, _, _)

\* WireFormat::SkipField: the field behind tag goes to the unknown-field store.
\* Field number 0 is illegal, and so are an end-group tag and wire types 6, 7.
SkipField(bytes, pos, tag, unknown) ==
    IF GetTagFieldNumber(tag) = 0
    THEN [ok |-> FALSE, unknown |-> unknown, pos |-> pos]
    ELSE CASE GetTagWireType(tag) = WIRETYPE_VARINT ->
                SkipVarint(unknown, GetTagFieldNumber(tag), ReadVarint64(bytes, pos))
           [] GetTagWireType(tag) = WIRETYPE_FIXED64 ->
                SkipFixed64(unknown, GetTagFieldNumber(tag),
                            ReadLittleEndian(bytes, pos, 8))
           [] GetTagWireType(tag) = WIRETYPE_LENGTH_DELIMITED ->
                SkipLengthDelimited(bytes, unknown, GetTagFieldNumber(tag),
                                    ReadVarint32(bytes, pos))
           [] GetTagWireType(tag) = WIRETYPE_START_GROUP ->
                SkipGroup(unknown, GetTagFieldNumber(tag),
                          SkipMessage(bytes, pos, <<>>))
           [] GetTagWireType(tag) = WIRETYPE_FIXED32 ->
                SkipFixed32(unknown, GetTagFieldNumber(tag),
                            ReadLittleEndian(bytes, pos, 4))
           [] OTHER -> [ok |-> FALSE, unknown |-> unknown, pos |-> pos]

\* WireFormat::SkipMessage after SkipField returned r for the field behind tag
SkipNext(bytes, tag, r) ==
    IF ~r.ok
    THEN [ok |-> FALSE, unknown |-> r.unknown, pos |-> r.pos, last_tag |-> tag]
    ELSE SkipMessage(bytes, r.pos, r.unknown)

\* WireFormat::SkipMessage after its ReadTag returned t: the fields up to the
\* end of the buffer or an end-group tag
SkipFields(bytes, t, unknown) ==
    IF t.tag = 0 \/ GetTagWireType(t.tag) = WIRETYPE_END_GROUP
    THEN [ok |-> TRUE, unknown |-> unknown, pos |-> t.pos, last_tag |-> t.tag]
    ELSE SkipNext(bytes, t.tag, SkipField(bytes, t.pos, t.tag, unknown))

\* WireFormat::SkipMessage
SkipMessage(bytes, pos, unknown) ==
    SkipFields(bytes, ReadTagWithCutoffNoLastTag(bytes, pos), unknown)

\* a value read for field 7: a valid one is added to sub_type, any other goes
\* to the unknown fields as a varint, sign-extended
\* field 7 dropping a value MinorType_IsValid rejects, as a reader that does
\* not preserve unknown enum values does
StoreSubTypeDroppingUnknown(m, value) ==
    IF MinorType_IsValid(value) THEN add_sub_type(m, value) ELSE m

StoreSubType(m, value) ==
    IF MinorType_IsValid(value) THEN add_sub_type(m, value)
    ELSE [m EXCEPT !.unknown_fields =
              AddVarint(@, kSubTypeFieldNumber, SignExtend(value))]

RECURSIVE ReadPackedValues(_, _, _)
RECURSIVE ReadPackedValue(_, _, _)

\* the loop of WireFormat::ReadPackedEnumPreserveUnknowns after ReadPrimitive
\* returned r
ReadPackedValue(m, limited, r) ==
    IF ~r.ok THEN [ok |-> FALSE, msg |-> m, pos |-> r.pos]
    ELSE ReadPackedValues(StoreSubType(m, r.value), limited, r.pos)

\* the loop of WireFormat::ReadPackedEnumPreserveUnknowns over limited, the
\* buffer cut at the limit PushLimit has set
ReadPackedValues(m, limited, pos) ==
    IF pos > Len(limited) THEN [ok |-> TRUE, msg |-> m, pos |-> pos]
    ELSE ReadPackedValue(m, limited, ReadVarint32(limited, pos))

\* the run has been read up to the limit and the limit is inside the buffer
PackedDone(p, bytes, end) ==
    [ok |-> p.ok /\ end <= Len(bytes), msg |-> p.msg, pos |-> p.pos]

\* ReadPackedEnumPreserveUnknowns after ReadVarint32 returned r for the length
ReadPacked(m, bytes, r) ==
    IF ~r.ok THEN [ok |-> FALSE, msg |-> m, pos |-> r.pos]
    ELSE IF r.value < 0 THEN [ok |-> TRUE, msg |-> m, pos |-> r.pos]
    ELSE PackedDone(
             ReadPackedValues(m, SubSeq(bytes, 1, Min(r.pos + r.value - 1, Len(bytes))),
                              r.pos),
             bytes, r.pos + r.value - 1)

\* WireFormat::ReadPackedEnumPreserveUnknowns(input, 7, MinorType_IsValid, ...)
ReadPackedEnumPreserveUnknowns(m, bytes, pos) ==
    ReadPacked(m, bytes, ReadVarint32(bytes, pos))

\* what SkipField returned, as the outcome of one turn of the decode loop
Skipped(m, r) ==
    [status |-> IF r.ok THEN "continue" ELSE "failure",
     msg |-> [m EXCEPT !.unknown_fields = r.unknown], pos |-> r.pos]

\* handle_unusual without the test for tag 0: every tag goes to SkipField
HandleUnusualSkippingZero(m, bytes, pos, tag) ==
    Skipped(m, SkipField(bytes, pos, tag, m.unknown_fields))

\* handle_unusual rejecting a known field number that comes with another
\* wire type
HandleUnusualRejectingKnown(m, bytes, pos, tag) ==
    IF tag = 0 THEN [status |-> "success", msg |-> m, pos |-> pos]
    ELSE IF GetTagFieldNumber(tag) \in 1..7
         THEN [status |-> "failure", msg |-> m, pos |-> pos]
         ELSE Skipped(m, SkipField(bytes, pos, tag, m.unknown_fields))

\* handle_unusual: tag 0 ends the message, any other tag is skipped into the
\* unknown fields
HandleUnusual(m, bytes, pos, tag) ==
    IF tag = 0 THEN [status |-> "success", msg |-> m, pos |-> pos]
    ELSE Skipped(m, SkipField(bytes, pos, tag, m.unknown_fields))

\* case 1 dropping a value MinorType_IsValid rejects
ParseMinorTypeDroppingUnknown(m, r) ==
    IF ~r.ok THEN [status |-> "failure", msg |-> m, pos |-> r.pos]
    ELSE [status |-> "continue", pos |-> r.pos,
          msg |-> IF MinorType_IsValid(r.value) THEN set_minor_type(m, r.value)
                  ELSE m]

\* case 1, optional .common.MinorType minor_type = 1: r is what ReadPrimitive
\* returned
ParseMinorType(m, r) ==
    IF ~r.ok THEN [status |-> "failure", msg |-> m, pos |-> r.pos]
    ELSE [status |-> "continue", pos |-> r.pos,
          msg |-> IF MinorType_IsValid(r.value) THEN set_minor_type(m, r.value)
                  ELSE [m EXCEPT !.unknown_fields =
                            AddVarint(@, kMinorTypeFieldNumber, SignExtend(r.value))]]

\* case 2, optional .common.DataMode mode = 2
ParseMode(m, r) ==
    IF ~r.ok THEN [status |-> "failure", msg |-> m, pos |-> r.pos]
    ELSE [status |-> "continue", pos |-> r.pos,
          msg |-> IF DataMode_IsValid(r.value) THEN set_mode(m, r.value)
                  ELSE [m EXCEPT !.unknown_fields =
                            AddVarint(@, kModeFieldNumber, SignExtend(r.value))]]

\* case 3, optional int32 width = 3: the presence bit is set before the read
ParseWidth(m, r) ==
    IF ~r.ok THEN [status |-> "failure", msg |-> set_has_width(m), pos |-> r.pos]
    ELSE [status |-> "continue", pos |-> r.pos,
          msg |-> [set_has_width(m) EXCEPT !.width_ = r.value]]

\* case 4, optional int32 precision = 4
ParsePrecision(m, r) ==
    IF ~r.ok THEN [status |-> "failure", msg |-> set_has_precision(m), pos |-> r.pos]
    ELSE [status |-> "continue", pos |-> r.pos,
          msg |-> [set_has_precision(m) EXCEPT !.precision_ = r.value]]

\* case 5, optional int32 scale = 5
ParseScale(m, r) ==
    IF ~r.ok THEN [status |-> "failure", msg |-> set_has_scale(m), pos |-> r.pos]
    ELSE [status |-> "continue", pos |-> r.pos,
          msg |-> [set_has_scale(m) EXCEPT !.scale_ = r.value]]

\* case 6, optional int32 timeZone = 6
ParseTimeZone(m, r) ==
    IF ~r.ok THEN [status |-> "failure", msg |-> set_has_timezone(m), pos |-> r.pos]
    ELSE [status |-> "continue", pos |-> r.pos,
          msg |-> [set_has_timezone(m) EXCEPT !.timezone_ = r.value]]

\* case 7 with tag 56: one unpacked sub_type entry
ParseSubType(m, r) ==
    IF ~r.ok THEN [status |-> "failure", msg |-> m, pos |-> r.pos]
    ELSE [status |-> "continue", pos |-> r.pos, msg |-> StoreSubType(m, r.value)]

\* case 7 with tag 58 stepping over the run without storing its values
ParsePackedSubTypeSkipped(m, r) ==
    [status |-> IF r.ok THEN "continue" ELSE "failure", msg |-> m, pos |-> r.pos]

\* case 7 with tag 58: the packed form
ParsePackedSubType(m, r) ==
    [status |-> IF r.ok THEN "continue" ELSE "failure", msg |-> r.msg, pos |-> r.pos]

\* the switch on the field number of tag p.tag, p being what
\* ReadTagWithCutoffNoLastTag returned; static_cast<uint8>(tag) is tag % 256
ParseTagged(m, bytes, p) ==
    IF ~p.second THEN HandleUnusual(m, bytes, p.pos, p.tag)
    ELSE CASE GetTagFieldNumber(p.tag) = 1 /\ p.tag % 256 = 8 ->
                ParseMinorType(m, ReadVarint32(bytes, p.pos))
           [] GetTagFieldNumber(p.tag) = 2 /\ p.tag % 256 = 16 ->
                ParseMode(m, ReadVarint32(bytes, p.pos))
           [] GetTagFieldNumber(p.tag) = 3 /\ p.tag % 256 = 24 ->
                ParseWidth(m, ReadVarint32(bytes, p.pos))
           [] GetTagFieldNumber(p.tag) = 4 /\ p.tag % 256 = 32 ->
                ParsePrecision(m, ReadVarint32(bytes, p.pos))
           [] GetTagFieldNumber(p.tag) = 5 /\ p.tag % 256 = 40 ->
                ParseScale(m, ReadVarint32(bytes, p.pos))
           [] GetTagFieldNumber(p.tag) = 6 /\ p.tag % 256 = 48 ->
                ParseTimeZone(m, ReadVarint32(bytes, p.pos))
           [] GetTagFieldNumber(p.tag) = 7 /\ p.tag % 256 = 56 ->
                ParseSubType(m, ReadVarint32(bytes, p.pos))
           [] GetTagFieldNumber(p.tag) = 7 /\ p.tag % 256 = 58 ->
                ParsePackedSubType(m, ReadPackedEnumPreserveUnknowns(m, bytes, p.pos))
           [] OTHER -> HandleUnusual(m, bytes, p.pos, p.tag)

\* one turn of the for (;;) loop of MergePartialFromCodedStream
ParseField(m, bytes, pos) ==
    ParseTagged(m, bytes, ReadTagWithCutoffNoLastTag(bytes, pos))

RECURSIVE ParseLoop(_, _, _)
RECURSIVE ParseNext(_, _)

ParseNext(bytes, r) ==
    IF r.status = "continue" THEN ParseLoop(r.msg, bytes, r.pos)
    ELSE [ok |-> r.status = "success", msg |-> r.msg, pos |-> r.pos]

\* the for (;;) loop, from the byte at pos
ParseLoop(m, bytes, pos) == ParseNext(bytes, ParseField(m, bytes, pos))

\* decode that clears the receiver before it reads
ParseReplacing(m, bytes) == ParseLoop(Clear(m), bytes, 1)

\* MajorType::MergePartialFromCodedStream, reading bytes from its first byte
MergePartialFromCodedStream(m, bytes) == ParseLoop(m, bytes, 1)

----------------------------------------------------------------------------
(* The descriptors the operations are tried on.  Each is a state setters    *)
(* and decode can produce: the storage of an absent scalar is zero.         *)

MaxSubTypes == 2
MaxUnknown == 1

INT == 5
BIGINT == 6

SubTypeLists == UNION {[1..k -> {INT, BIGINT}] : k \in 0..MaxSubTypes}

ProfileA ==
    [minor_type |-> INT, mode |-> 1, width |-> 4, precision |-> 0,
     scale |-> 0 - 1, timezone |-> 128]
ProfileB ==
    [minor_type |-> 0, mode |-> 2, width |-> Int32Min, precision |-> 300,
     scale |-> 16384, timezone |-> Int32Max]
ProfileDst ==
    [minor_type |-> INT, mode |-> 1, width |-> 10, precision |-> 0,
     scale |-> 0 - 1, timezone |-> 128]
ProfileSrc ==
    [minor_type |-> 44, mode |-> 0, width |-> 20, precision |-> 7,
     scale |-> 3, timezone |-> Int32Min]

Descriptor(bits, p, list, unknown) ==
    [has_bits |-> bits,
     minor_type_ |-> IF HasBit(bits, 1) THEN p.minor_type ELSE 0,
     mode_ |-> IF HasBit(bits, 2) THEN p.mode ELSE 0,
     width_ |-> IF HasBit(bits, 4) THEN p.width ELSE 0,
     precision_ |-> IF HasBit(bits, 8) THEN p.precision ELSE 0,
     scale_ |-> IF HasBit(bits, 16) THEN p.scale ELSE 0,
     timezone_ |-> IF HasBit(bits, 32) THEN p.timezone ELSE 0,
     sub_type_ |-> list, unknown_fields |-> unknown]

\* records decode leaves in the unknown-field store
UnknownEntries ==
    {AddVarint(<<>>, 1, <<99>>)[1],
     AddVarint(<<>>, 7, SignExtend(0 - 1))[1],
     AddFixed32(<<>>, 3, <<1, 2, 3, 4>>)[1],
     AddFixed64(<<>>, 2, <<1, 2, 3, 4, 5, 6, 7, 8>>)[1],
     AddLengthDelimited(<<>>, 16, <<7, 7>>)[1],
     AddGroup(<<>>, 9, AddVarint(<<>>, 1, <<1>>))[1]}

UnknownStores == UNION {[1..k -> UnknownEntries] : k \in 1..MaxUnknown}

Senders ==
    {Descriptor(b, p, l, <<>>) :
        b \in 0..63, p \in {ProfileA, ProfileB}, l \in SubTypeLists}
    \cup {Descriptor(b, ProfileA, l, u) :
        b \in {0, 21, 63}, l \in {<<>>, <<INT>>}, u \in UnknownStores}

Dsts ==
    {Descriptor(b, ProfileDst, l, u) :
        b \in {0, 4, 43, 63}, l \in {<<>>, <<INT>>},
        u \in {<<>>, AddVarint(<<>>, 1, <<99>>)}}

Srcs ==
    {Descriptor(b, ProfileSrc, l, u) :
        b \in {0, 20, 63}, l \in {<<>>, <<BIGINT>>, <<BIGINT, INT>>},
        u \in {<<>>, AddFixed32(<<>>, 3, <<1, 2, 3, 4>>)}}

----------------------------------------------------------------------------
(* Calls.  call.this and call.other are msg and from as they were before    *)
(* the call.                                                                *)

NoCall ==
    [op |-> "init", value |-> 0, ok |-> TRUE, size |-> 0,
     this |-> SharedCtor, other |-> SharedCtor]

Called(name) ==
    [op |-> name, value |-> 0, ok |-> TRUE, size |-> 0,
     this |-> msg, other |-> from]

Init ==
    /\ Registered
    /\ \/ msg \in Senders /\ from = SharedCtor
       \/ msg \in Dsts /\ from \in Srcs
    /\ input = <<>>
    /\ output = <<>>
    /\ call = NoCall
    /\ wire = <<>>

Set(name, m, value) ==
    /\ call.op = "init"
    /\ msg' = m
    /\ call' = [Called(name) EXCEPT !.value = value]
    /\ UNCHANGED <<from, input, output, wire, regvars>>

CallSetMinorType == \E v \in {0, 44} : Set("set_minor_type", set_minor_type(msg, v), v)
CallSetMode == \E v \in {0, 2} : Set("set_mode", set_mode(msg, v), v)
CallSetWidth == \E v \in {0, 7} : Set("set_width", set_width(msg, v), v)
CallSetPrecision == \E v \in {0, 7} : Set("set_precision", set_precision(msg, v), v)
CallSetScale == \E v \in {0, 7} : Set("set_scale", set_scale(msg, v), v)
CallSetTimezone == \E v \in {0, 7} : Set("set_timezone", set_timezone(msg, v), v)
CallAddSubType ==
    /\ Len(msg.sub_type_) < MaxSubTypes
    /\ \E v \in {INT, 44} : Set("add_sub_type", add_sub_type(msg, v), v)

CallClear ==
    /\ msg' = Clear(msg)
    /\ call' = Called("Clear")
    /\ UNCHANGED <<from, input, output, wire, regvars>>

CallMergeFrom ==
    /\ call.op = "init"
    /\ msg' = MergeFrom(msg, from)
    /\ call' = Called("MergeFrom")
    /\ UNCHANGED <<from, input, output, wire, regvars>>

CallCopyFrom ==
    /\ call.op = "init"
    /\ msg' = CopyFrom(msg, from)
    /\ call' = Called("CopyFrom")
    /\ UNCHANGED <<from, input, output, wire, regvars>>

CallSwap ==
    /\ call.op \in {"init", "MergePartialFromCodedStream"}
    /\ LET r == InternalSwap(msg, from)
       IN  msg' = r[1] /\ from' = r[2]
    /\ call' = Called("Swap")
    /\ UNCHANGED <<input, output, wire, regvars>>

CallSerialize ==
    /\ call.op = "init"
    /\ output' = SerializeWithCachedSizes(msg)
    /\ call' = Called("SerializeWithCachedSizes")
    /\ UNCHANGED <<msg, from, input, wire, regvars>>

CallSerializeToArray ==
    /\ call.op = "init"
    /\ output' = InternalSerializeWithCachedSizesToArray(msg)
    /\ call' = Called("InternalSerializeWithCachedSizesToArray")
    /\ UNCHANGED <<msg, from, input, wire, regvars>>

CallByteSizeLong ==
    /\ call.op = "init"
    /\ call' = [Called("ByteSizeLong") EXCEPT !.size = ByteSizeLong(msg)]
    /\ UNCHANGED <<msg, from, input, output, wire, regvars>>

\* the other instance decodes what this one wrote
CallParseOutput ==
    /\ call.op \in {"SerializeWithCachedSizes", "InternalSerializeWithCachedSizesToArray"}
    /\ LET r == MergePartialFromCodedStream(from, output)
       IN  /\ from' = r.msg
           /\ call' = [Called("MergePartialFromCodedStream") EXCEPT !.ok = r.ok]
    /\ input' = output
    /\ UNCHANGED <<msg, output, wire, regvars>>

\* this instance is cleared and decodes what it and the other one wrote, one
\* stream after the other (MessageLite::ParseFromCodedStream: Clear, then
\* MergePartialFromCodedStream)
CallParseFromCodedStream ==
    /\ call.op = "init"
    /\ LET r == MergePartialFromCodedStream(
                    Clear(msg),
                    SerializeWithCachedSizes(msg) \o SerializeWithCachedSizes(from))
       IN  /\ msg' = r.msg
           /\ call' = [Called("ParseFromCodedStream") EXCEPT !.ok = r.ok]
    /\ input' = SerializeWithCachedSizes(msg) \o SerializeWithCachedSizes(from)
    /\ UNCHANGED <<from, output, wire, regvars>>

Next ==
    \/ CallSetMinorType \/ CallSetMode \/ CallSetWidth \/ CallSetPrecision
    \/ CallSetScale \/ CallSetTimezone \/ CallAddSubType
    \/ CallClear \/ CallMergeFrom \/ CallCopyFrom \/ CallSwap
    \/ CallSerialize \/ CallSerializeToArray \/ CallByteSizeLong
    \/ CallParseOutput \/ CallParseFromCodedStream

Spec == Init /\ [][Next]_vars

----------------------------------------------------------------------------
(* Enum validation on its own: a caller hands MinorType_IsValid or          *)
(* DataMode_IsValid an integer.                                             *)

MaxEnumProbe == 64

EnumProbes == ((0 - MaxEnumProbe)..MaxEnumProbe) \cup {Int32Min, Int32Max}

InitEnum ==
    /\ Registered
    /\ msg = SharedCtor
    /\ from = SharedCtor
    /\ input = <<>>
    /\ output = <<>>
    /\ wire = <<>>
    /\ call \in {[NoCall EXCEPT !.value = v] : v \in EnumProbes}

CallMinorTypeIsValid ==
    /\ call.op = "init"
    /\ call' = [call EXCEPT !.op = "MinorType_IsValid",
                            !.ok = MinorType_IsValid(call.value)]
    /\ UNCHANGED <<msg, from, input, output, wire, regvars>>

CallDataModeIsValid ==
    /\ call.op = "init"
    /\ call' = [call EXCEPT !.op = "DataMode_IsValid",
                            !.ok = DataMode_IsValid(call.value)]
    /\ UNCHANGED <<msg, from, input, output, wire, regvars>>

NextEnum == CallMinorTypeIsValid \/ CallDataModeIsValid

SpecEnum == InitEnum /\ [][NextEnum]_vars

----------------------------------------------------------------------------
(* Decoding streams that did not come from encode: an empty descriptor      *)
(* decodes a stream put together from the fields below and is encoded       *)
(* again. Each field of the catalogue says what it is on the wire:          *)
(*   bytes     the bytes of the field                                       *)
(*   class     "typed"     one of the six scalars with a value it accepts   *)
(*             "sub_type"  field 7 carrying valid values only               *)
(*             "enum"      field 1, 2 or 7, unpacked, with a value the      *)
(*                         validator rejects                                *)
(*             "packed"    field 7, packed, with a rejected value in it     *)
(*             "number"    a field number the schema does not have          *)
(*             "wiretype"  field 1..7 with another wire type                *)
(*             "end"       the tag 0                                        *)
(*             "malformed" not decodable when it ends the stream            *)
(*   number    the field number                                             *)
(*   sub       the valid MinorType values it carries for field 7            *)
(*   captured  the field numbers of the entries it leaves in the unknown    *)
(*             fields                                                       *)
(*   raw       the 64-bit value of a rejected enum value, base 128          *)
(*   reemit    the minimal encoding of the captured entries                 *)

MaxFields == 2

Field(bytes, class, number, sub, captured, raw, reemit) ==
    [bytes |-> bytes, class |-> class, number |-> number, sub |-> sub,
     captured |-> captured, raw |-> raw, reemit |-> reemit]

Typed(bytes, number) == Field(bytes, "typed", number, <<>>, <<>>, <<>>, <<>>)

SubType(bytes, sub) == Field(bytes, "sub_type", 7, sub, <<>>, <<>>, <<>>)

\* captured, and carried in the minimal encoding
Verbatim(bytes, class, number, raw) ==
    Field(bytes, class, number, <<>>, <<number>>, raw, bytes)

Malformed(bytes, number) == Field(bytes, "malformed", number, <<>>, <<>>, <<>>, <<>>)

MinusOne == <<127, 127, 127, 127, 127, 127, 127, 127, 127, 1>>

TypedFields ==
    { Typed(<<8, 5>>, 1), Typed(<<8, 0>>, 1), Typed(<<136, 0, 5>>, 1),
      Typed(<<16, 1>>, 2), Typed(<<24, 4>>, 3),
      Typed(<<24, 255, 255, 255, 255, 255, 255, 255, 255, 255, 1>>, 3),
      Typed(<<40, 172, 2>>, 5) }

SubTypeFields ==
    { SubType(<<56, 5>>, <<5>>), SubType(<<56, 6>>, <<6>>),
      SubType(<<58, 2, 5, 6>>, <<5, 6>>), SubType(<<58, 1, 6>>, <<6>>),
      SubType(<<58, 0>>, <<>>) }

EnumFields ==
    { Verbatim(<<8, 99>>, "enum", 1, <<99>>),
      Verbatim(<<8, 2>>, "enum", 1, <<2>>),
      Verbatim(<<8, 255, 255, 255, 255, 255, 255, 255, 255, 255, 1>>, "enum", 1,
               MinusOne),
      Field(<<8, 128, 128, 128, 128, 8>>, "enum", 1, <<>>, <<1>>,
            <<0, 0, 0, 0, 120, 127, 127, 127, 127, 1>>,
            <<8, 128, 128, 128, 128, 248, 255, 255, 255, 255, 1>>),
      Field(<<8, 227, 0>>, "enum", 1, <<>>, <<1>>, <<99>>, <<8, 99>>),
      Verbatim(<<16, 3>>, "enum", 2, <<3>>),
      Field(<<16, 131, 0>>, "enum", 2, <<>>, <<2>>, <<3>>, <<16, 3>>),
      Verbatim(<<56, 27>>, "enum", 7, <<27>>) }

PackedFields ==
    { Field(<<58, 1, 28>>, "packed", 7, <<>>, <<7>>, <<28>>, <<56, 28>>),
      Field(<<58, 2, 28, 5>>, "packed", 7, <<5>>, <<7>>, <<28>>, <<56, 28>>) }

NumberFields ==
    { Verbatim(<<72, 1>>, "number", 9, <<>>),
      Verbatim(<<128, 1, 7>>, "number", 16, <<>>),
      Verbatim(<<75, 8, 1, 76>>, "number", 9, <<>>),
      Verbatim(<<77, 1, 2, 3, 4>>, "number", 9, <<>>),
      Verbatim(<<74, 1, 5>>, "number", 9, <<>>),
      Field(<<72, 129, 0>>, "number", 9, <<>>, <<9>>, <<>>, <<72, 1>>) }

WireTypeFields ==
    { Verbatim(<<29, 1, 2, 3, 4>>, "wiretype", 3, <<>>),
      Verbatim(<<10, 1, 5>>, "wiretype", 1, <<>>),
      Verbatim(<<17, 1, 2, 3, 4, 5, 6, 7, 8>>, "wiretype", 2, <<>>),
      Verbatim(<<59, 60>>, "wiretype", 7, <<>>) }

EndFields == { Field(<<0>>, "end", 0, <<>>, <<>>, <<>>, <<>>) }

MalformedFields ==
    { Malformed(<<8, 128>>, 1), Malformed(<<24>>, 3), Malformed(<<14, 1>>, 1),
      Malformed(<<76>>, 9), Malformed(<<10, 5, 1>>, 1), Malformed(<<2, 0>>, 0),
      Malformed(<<8, 128, 128, 128, 128, 128, 128, 128, 128, 128, 128, 1>>, 1),
      Malformed(<<58, 2, 5>>, 7) }

Fields ==
    TypedFields \cup SubTypeFields \cup EnumFields \cup PackedFields
        \cup NumberFields \cup WireTypeFields \cup EndFields \cup MalformedFields

RECURSIVE Concat(_)
Concat(seqs) == IF Len(seqs) = 0 THEN <<>> ELSE Head(seqs) \o Concat(Tail(seqs))

Flatten(w) == Concat([i \in 1..Len(w) |-> w[i].bytes])

InitWire ==
    /\ Registered
    /\ msg = SharedCtor
    /\ from = SharedCtor
    /\ wire \in UNION {[1..n -> Fields] : n \in 0..MaxFields}
    /\ input = Flatten(wire)
    /\ output = <<>>
    /\ call = NoCall

\* the empty descriptor decodes the stream
CallParseInput ==
    /\ call.op = "init"
    /\ LET r == MergePartialFromCodedStream(msg, input)
       IN  /\ msg' = r.msg
           /\ call' = [Called("MergePartialFromCodedStream") EXCEPT !.ok = r.ok]
    /\ UNCHANGED <<from, input, output, wire, regvars>>

\* and, when decode succeeded, is encoded again
CallSerializeParsed ==
    /\ call.op = "MergePartialFromCodedStream"
    /\ call.ok
    /\ output' = SerializeWithCachedSizes(msg)
    /\ call' = Called("SerializeWithCachedSizes")
    /\ UNCHANGED <<msg, from, input, wire, regvars>>

NextWire == CallParseInput \/ CallSerializeParsed

SpecWire == InitWire /\ [][NextWire]_vars

----------------------------------------------------------------------------
(* Threads calling AddDescriptors and protobuf_AssignDescriptorsOnce while  *)
(* the dynamic initializer may still be in its own call of AddDescriptors.  *)

InitOnce ==
    /\ msg = SharedCtor
    /\ from = SharedCtor
    /\ input = <<>>
    /\ output = <<>>
    /\ wire = <<>>
    /\ call = NoCall
    /\ threads = [t \in Threads |->
                     IF t = 0
                     THEN [stack |-> <<"AddDescriptors">>, calls |-> MaxCalls,
                           last |-> "none"]
                     ELSE Idle]
    /\ once = [AddDescriptors |-> "uninit", protobuf_AssignDescriptorsOnce |-> "uninit"]
    /\ ran = [AddDescriptorsImpl |-> [started |-> 0, finished |-> 0],
              protobuf_AssignDescriptors |-> [started |-> 0, finished |-> 0]]

Top(t) == IF threads[t].stack = <<>> THEN "idle" ELSE Head(threads[t].stack)

\* the top frame returns; at the bottom of the stack the caller has its answer
Return(t, name) ==
    [threads EXCEPT ![t].stack = Tail(@),
                    ![t].last = IF Len(threads[t].stack) = 1 THEN name ELSE @]

Replace(t, frame) == [threads EXCEPT ![t].stack = <<frame>> \o Tail(@)]

\* a thread calls AddDescriptors()
CallAddDescriptors(t) ==
    /\ Top(t) = "idle"
    /\ threads[t].calls < MaxCalls
    /\ threads' = [threads EXCEPT ![t].stack = <<"AddDescriptors">>,
                                  ![t].calls = @ + 1, ![t].last = "none"]
    /\ UNCHANGED <<once, ran, codecvars>>

\* a thread calls protobuf_AssignDescriptorsOnce() (MinorType_descriptor,
\* DataMode_descriptor, protobuf_RegisterTypes, GetMetadata)
CallAssignDescriptorsOnce(t) ==
    /\ Top(t) = "idle"
    /\ threads[t].calls < MaxCalls
    /\ threads' = [threads EXCEPT ![t].stack = <<"protobuf_AssignDescriptorsOnce">>,
                                  ![t].calls = @ + 1, ![t].last = "none"]
    /\ UNCHANGED <<once, ran, codecvars>>

\* AddDescriptors: call_once(once, AddDescriptorsImpl)
AddDescriptors(t) ==
    /\ Top(t) = "AddDescriptors"
    /\ call_once(once.AddDescriptors) # "wait"
    /\ IF call_once(once.AddDescriptors) = "run"
       THEN /\ once' = [once EXCEPT !.AddDescriptors = "running"]
            /\ ran' = [ran EXCEPT !.AddDescriptorsImpl.started = @ + 1]
            /\ threads' = Replace(t, "AddDescriptorsImpl")
       ELSE /\ threads' = Return(t, "AddDescriptors")
            /\ UNCHANGED <<once, ran>>
    /\ UNCHANGED codecvars

\* AddDescriptorsImpl runs to its end, call_once sets the flag and returns
AddDescriptorsImpl(t) ==
    /\ Top(t) = "AddDescriptorsImpl"
    /\ ran' = [ran EXCEPT !.AddDescriptorsImpl.finished = @ + 1]
    /\ once' = [once EXCEPT !.AddDescriptors = "done"]
    /\ threads' = Return(t, "AddDescriptors")
    /\ UNCHANGED codecvars

\* protobuf_AssignDescriptorsOnce: call_once(once, protobuf_AssignDescriptors)
protobuf_AssignDescriptorsOnce(t) ==
    /\ Top(t) = "protobuf_AssignDescriptorsOnce"
    /\ call_once(once.protobuf_AssignDescriptorsOnce) # "wait"
    /\ IF call_once(once.protobuf_AssignDescriptorsOnce) = "run"
       THEN /\ once' = [once EXCEPT !.protobuf_AssignDescriptorsOnce = "running"]
            /\ ran' = [ran EXCEPT !.protobuf_AssignDescriptors.started = @ + 1]
            /\ threads' = Replace(t, "protobuf_AssignDescriptors")
       ELSE /\ threads' = Return(t, "protobuf_AssignDescriptorsOnce")
            /\ UNCHANGED <<once, ran>>
    /\ UNCHANGED codecvars

\* protobuf_AssignDescriptors, first statement: AddDescriptors()
protobuf_AssignDescriptors(t) ==
    /\ Top(t) = "protobuf_AssignDescriptors"
    /\ threads' = [threads EXCEPT ![t].stack =
                       <<"AddDescriptors", "AssignDescriptors">> \o Tail(@)]
    /\ UNCHANGED <<once, ran, codecvars>>

\* protobuf_AssignDescriptors, second statement: AssignDescriptors(...) runs to
\* its end, call_once sets the flag and returns
AssignDescriptors(t) ==
    /\ Top(t) = "AssignDescriptors"
    /\ ran' = [ran EXCEPT !.protobuf_AssignDescriptors.finished = @ + 1]
    /\ once' = [once EXCEPT !.protobuf_AssignDescriptorsOnce = "done"]
    /\ threads' = Return(t, "protobuf_AssignDescriptorsOnce")
    /\ UNCHANGED codecvars

NextOnce ==
    \E t \in Threads :
        \/ CallAddDescriptors(t)
        \/ CallAssignDescriptorsOnce(t)
        \/ AddDescriptors(t)
        \/ AddDescriptorsImpl(t)
        \/ protobuf_AssignDescriptorsOnce(t)
        \/ protobuf_AssignDescriptors(t)
        \/ AssignDescriptors(t)

SpecOnce == InitOnce /\ [][NextOnce]_vars

----------------------------------------------------------------------------
(* Properties of the calls on descriptors (Spec) and of the validators      *)
(* (SpecEnum).                                                              *)

Mask(i) == 2 ^ (i - 1)

Scalar(m, i) ==
    CASE i = 1 -> m.minor_type_
      [] i = 2 -> m.mode_
      [] i = 3 -> m.width_
      [] i = 4 -> m.precision_
      [] i = 5 -> m.scale_
      [] i = 6 -> m.timezone_

Serialized == {"SerializeWithCachedSizes", "InternalSerializeWithCachedSizesToArray"}

\* C1: a descriptor with valid enum values, written by encode and decoded by
\* an empty descriptor: decode succeeds and the decoded descriptor has the
\* sender's presence bits, the sender's value for every present scalar
\* (a present 0 included) and the sender's sub_type list in order.
C1_RoundTrip ==
    (call.op = "MergePartialFromCodedStream" /\ call.other = SharedCtor)
        => /\ input = SerializeWithCachedSizes(msg)
           /\ call.ok
           /\ from.has_bits = msg.has_bits
           /\ \A i \in 1..6 :
                  HasBit(msg.has_bits, Mask(i)) => Scalar(from, i) = Scalar(msg, i)
           /\ from.sub_type_ = msg.sub_type_

C1_Witness ==
    /\ call.op = "MergePartialFromCodedStream"
    /\ call.other = SharedCtor
    /\ msg.has_bits = 63
    /\ msg.minor_type_ = 0
    /\ msg.width_ = Int32Min
    /\ msg.sub_type_ = <<BIGINT, INT>>
    /\ from = msg

\* C2: the size ByteSizeLong returns is the number of bytes encode writes:
\* one tag byte and the varint of the value for each present scalar and for
\* each sub_type entry, and the bytes of the unknown-field store.
C2_SizeFidelity ==
    call.op = "ByteSizeLong"
        => /\ call.size = Len(SerializeWithCachedSizes(msg))
           /\ call.size =
                  Len(Concat([i \in 1..6 |->
                         IF HasBit(msg.has_bits, Mask(i))
                         THEN <<8 * i>> \o WriteVarint32SignExtended(Scalar(msg, i))
                         ELSE <<>>]))
                  + Len(Concat([k \in 1..Len(msg.sub_type_) |->
                         <<56>> \o WriteVarint32SignExtended(msg.sub_type_[k])]))
                  + Len(SerializeUnknownFields(msg.unknown_fields))

C2_Witness ==
    /\ call.op = "ByteSizeLong"
    /\ has_scale(msg) /\ msg.scale_ < 0
    /\ Len(msg.sub_type_) > 0
    /\ Len(msg.unknown_fields) > 0
    /\ call.size > 20

\* C6: after MergeFrom with another instance, every scalar the source has is
\* present in the destination with the source's value, every other scalar has
\* the presence bit and the value it had, sub_type and the unknown fields are
\* the old ones followed by the source's, and the source is unchanged.
C6_Merge ==
    call.op = "MergeFrom"
        => /\ \A i \in 1..6 :
                  IF HasBit(call.other.has_bits, Mask(i))
                  THEN /\ HasBit(msg.has_bits, Mask(i))
                       /\ Scalar(msg, i) = Scalar(call.other, i)
                  ELSE /\ HasBit(msg.has_bits, Mask(i))
                              = HasBit(call.this.has_bits, Mask(i))
                       /\ Scalar(msg, i) = Scalar(call.this, i)
           /\ msg.sub_type_ = call.this.sub_type_ \o call.other.sub_type_
           /\ msg.unknown_fields
                  = call.this.unknown_fields \o call.other.unknown_fields
           /\ from = call.other

\* merge(dst = {width: 10}, src = {width: 20, scale: 3}) = {width: 20, scale: 3}
C6_Witness ==
    /\ call.op = "MergeFrom"
    /\ call.this.has_bits = 4 /\ call.this.width_ = 10
    /\ call.other.has_bits = 20 /\ call.other.width_ = 20 /\ call.other.scale_ = 3
    /\ msg.has_bits = 20 /\ msg.width_ = 20 /\ msg.scale_ = 3
    /\ Len(call.this.sub_type_) > 0 /\ Len(call.other.sub_type_) > 0
    /\ Len(call.this.unknown_fields) > 0 /\ Len(call.other.unknown_fields) > 0

\* C7: Clear leaves the empty descriptor (no presence bit, all six storages
\* zero, no sub_type entry, no unknown field), whatever set, decode, merge,
\* copy or swap made of the descriptor before, and a second Clear changes
\* nothing.
C7_Clear ==
    call.op = "Clear" => msg = SharedCtor /\ Clear(msg) = msg

C7_Witness ==
    /\ call.op = "Clear"
    /\ call.this.has_bits = 63 /\ call.this.timezone_ # 0
    /\ Len(call.this.sub_type_) > 0
    /\ Len(call.this.unknown_fields) > 0
    /\ msg = SharedCtor

\* C8: encode writes the present scalars in ascending field number, each as
\* its tag byte and the varint of its value (a present 0 too, nothing for an
\* absent scalar), then every sub_type entry as tag 0x38 and its varint, then
\* the unknown-field store; {minor_type: INT, mode: DM_REQUIRED, width: 4}
\* gives 08 05 10 01 18 04.
C8_EncodeOrder ==
    call.op \in Serialized
        => /\ output =
                  Concat([i \in 1..6 |->
                      IF HasBit(msg.has_bits, Mask(i))
                      THEN <<8 * i>> \o WriteVarint32SignExtended(Scalar(msg, i))
                      ELSE <<>>])
                  \o Concat([k \in 1..Len(msg.sub_type_) |->
                      <<56>> \o WriteVarint32SignExtended(msg.sub_type_[k])])
                  \o SerializeUnknownFields(msg.unknown_fields)
           /\ (msg = Descriptor(7, ProfileA, <<>>, <<>>)
                  => output = <<8, 5, 16, 1, 24, 4>>)

C8_Witness ==
    /\ call.op = "InternalSerializeWithCachedSizesToArray"
    /\ msg.has_bits = 7 /\ msg.minor_type_ = INT /\ msg.mode_ = 1 /\ msg.width_ = 4
    /\ output = <<8, 5, 16, 1, 24, 4>>

\* C10: MinorType_IsValid accepts exactly 0, 1, 3..26, 29..34 and 37..44 (40
\* numbers), DataMode_IsValid exactly 0, 1, 2, and neither changes anything.
C10_EnumValidation ==
    /\ call.op = "MinorType_IsValid"
           => (call.ok <=> call.value \in (0..1) \cup (3..26) \cup (29..34) \cup (37..44))
    /\ call.op = "DataMode_IsValid" => (call.ok <=> call.value \in 0..2)
    /\ call.op \in {"MinorType_IsValid", "DataMode_IsValid"}
           => /\ msg = SharedCtor /\ from = SharedCtor
              /\ input = <<>> /\ output = <<>>
              /\ Cardinality({v \in EnumProbes : MinorType_IsValid(v)}) = 40

C10_Witness ==
    /\ call.op = "MinorType_IsValid"
    /\ call.value = 27
    /\ ~call.ok

\* a holds what merging b into the descriptor a0 leaves: the scalars of b
\* where b has them and those of a0 elsewhere, no presence bit of a0 lost,
\* sub_type and the unknown entries of a0 followed by those of b
MergedInto(a, a0, b) ==
    /\ \A i \in 1..6 :
           /\ HasBit(a.has_bits, Mask(i))
                  <=> (HasBit(a0.has_bits, Mask(i)) \/ HasBit(b.has_bits, Mask(i)))
           /\ Scalar(a, i) = IF HasBit(b.has_bits, Mask(i)) THEN Scalar(b, i)
                             ELSE Scalar(a0, i)
    /\ a.sub_type_ = a0.sub_type_ \o b.sub_type_
    /\ a.unknown_fields = a0.unknown_fields \o b.unknown_fields

\* C13: decoding encode(a) ++ encode(b) into an empty descriptor gives
\* merge(a, b), and so does decoding encode(b) into a: a scalar both have
\* takes the value of b, the last one in the stream, no presence bit is lost,
\* sub_type and the unknown entries of b come after those of a.
C13_DecodeIsMerge ==
    /\ call.op = "ParseFromCodedStream"
           => /\ call.ok
              /\ input = SerializeWithCachedSizes(call.this)
                             \o SerializeWithCachedSizes(call.other)
              /\ msg = MergeFrom(call.this, call.other)
              /\ MergedInto(msg, call.this, call.other)
    /\ call.op = "MergePartialFromCodedStream"
           => /\ call.ok
              /\ input = SerializeWithCachedSizes(msg)
              /\ from = MergeFrom(call.other, msg)
              /\ MergedInto(from, call.other, msg)

\* encode({width: 10, ...}) ++ encode({width: 20, scale: 3, ...}) decodes to
\* width 20, scale 3
C13_Witness ==
    /\ call.op = "ParseFromCodedStream"
    /\ call.this.has_bits = 43 /\ call.this.minor_type_ = INT
    /\ call.other.has_bits = 20 /\ call.other.width_ = 20 /\ call.other.scale_ = 3
    /\ msg.has_bits = 63 /\ msg.minor_type_ = INT
    /\ msg.width_ = 20 /\ msg.scale_ = 3
    /\ call.this.sub_type_ = <<INT>> /\ call.other.sub_type_ = <<BIGINT, INT>>
    /\ msg.sub_type_ = <<INT, BIGINT, INT>>
    /\ Len(call.this.unknown_fields) = 1 /\ Len(call.other.unknown_fields) = 1
    /\ Len(msg.unknown_fields) = 2

----------------------------------------------------------------------------
(* Properties of decoding a stream of catalogue fields (SpecWire).          *)

Decoded == call.op = "MergePartialFromCodedStream"

Reencoded == call.op = "SerializeWithCachedSizes"

\* every field of the stream is complete and none is the tag 0
Complete(w) == \A i \in 1..Len(w) : w[i].class \notin {"end", "malformed"}

Captured(w) == Concat([i \in 1..Len(w) |-> w[i].captured])

StoreNumbers(m) == [k \in 1..Len(m.unknown_fields) |-> m.unknown_fields[k].number]

\* what encode writes for the scalars and the sub_type list of m
TypedWire(m) ==
    Concat([i \in 1..6 |->
        IF HasBit(m.has_bits, Mask(i))
        THEN <<8 * i>> \o WriteVarint32SignExtended(Scalar(m, i))
        ELSE <<>>])
    \o Concat([k \in 1..Len(m.sub_type_) |->
        <<56>> \o WriteVarint32SignExtended(m.sub_type_[k])])

\* field i is the only one of the stream that leaves an unknown entry
OnlyCaptured(w, i) == \A j \in 1..Len(w) : j # i => w[j].captured = <<>>

RejectedEnum(w, i) == w[i].class = "enum" /\ w[i].number \in {1, 2}

\* C3 (as amended): decoding into an empty descriptor a stream whose field 1
\* or 2 carries a value the validator rejects succeeds, sets no presence bit
\* and no value for that field, and appends the value, sign-extended to 64
\* bits, to the unknown fields under the field number; encode then writes the
\* tag and the minimal varint of that value, which are the original bytes
\* when the stream carried the value in that form.
C3_UnknownEnumValue ==
    \A i \in 1..Len(wire) :
        (Complete(wire) /\ RejectedEnum(wire, i)) =>
            /\ Decoded =>
                   /\ call.ok
                   /\ HasBit(msg.has_bits, Mask(wire[i].number))
                          <=> \E j \in 1..Len(wire) :
                                  /\ wire[j].class = "typed"
                                  /\ wire[j].number = wire[i].number
                   /\ ~HasBit(msg.has_bits, Mask(wire[i].number))
                          => Scalar(msg, wire[i].number) = 0
                   /\ LET k == Len(Captured(SubSeq(wire, 1, i)))
                      IN  /\ k <= Len(msg.unknown_fields)
                          /\ msg.unknown_fields[k].number = wire[i].number
                          /\ msg.unknown_fields[k].type = "VARINT"
                          /\ msg.unknown_fields[k].value = wire[i].raw
            /\ (Reencoded /\ OnlyCaptured(wire, i)) =>
                   /\ output = TypedWire(msg) \o wire[i].reemit
                   /\ wire[i].reemit
                          = <<8 * wire[i].number>>
                                \o [k \in 1..Len(wire[i].raw) |->
                                       wire[i].raw[k]
                                           + (IF k < Len(wire[i].raw) THEN 128 ELSE 0)]

C3_Witness ==
    /\ Reencoded
    /\ Len(wire) = 2
    /\ wire[1].bytes = <<8, 99>>
    /\ wire[2].bytes = <<16, 1>>
    /\ ~has_minor_type(msg) /\ has_mode(msg)
    /\ msg.unknown_fields = AddVarint(<<>>, 1, <<99>>)
    /\ output = <<16, 1, 8, 99>>

\* C3 as stated: re-encoding reproduces the original tag and value bytes of
\* the field.
C3_OriginalBytes ==
    \A i \in 1..Len(wire) :
        (Reencoded /\ Complete(wire) /\ RejectedEnum(wire, i) /\ OnlyCaptured(wire, i))
            => output = TypedWire(msg) \o wire[i].bytes

\* C4 (as amended): for every stream of complete fields, each entry decode
\* does not turn into a typed field is kept in the unknown fields under its
\* field number, in the order of capture, and encode writes the entries in
\* that order after the typed fields, each in its minimal encoding: the
\* original bytes of a field that was minimally encoded and, for field 7,
\* unpacked; tag 0x38 and the varint for a rejected value of a packed run.
C4_Reemit ==
    (Complete(wire) /\ (Decoded \/ Reencoded)) =>
        /\ StoreNumbers(msg) = Captured(wire)
        /\ Reencoded =>
               output = TypedWire(msg) \o Concat([i \in 1..Len(wire) |-> wire[i].reemit])

C4_Witness ==
    /\ Reencoded
    /\ Len(wire) = 2
    /\ wire[1].bytes = <<58, 2, 28, 5>>
    /\ wire[2].bytes = <<75, 8, 1, 76>>
    /\ msg.sub_type_ = <<5>>
    /\ output = <<56, 5, 56, 28, 75, 8, 1, 76>>

\* C4 as stated: each such entry is re-emitted with exactly its original
\* bytes, field 7 packed included (a run holding valid values as well is
\* left out of the statement).
C4_OriginalBytes ==
    (Reencoded /\ Complete(wire)
         /\ \A i \in 1..Len(wire) : wire[i].captured = <<>> \/ wire[i].sub = <<>>)
        => output = TypedWire(msg)
                        \o Concat([i \in 1..Len(wire) |->
                               IF wire[i].captured # <<>> THEN wire[i].bytes ELSE <<>>])

UnpackedForm(list) == Concat([k \in 1..Len(list) |-> <<56, list[k]>>])

PackedForm(list) == <<58, Len(list)>> \o list

\* C5: decoding a stream of complete fields succeeds and leaves in sub_type
\* the valid values of its field 7 entries in stream order, unpacked and
\* packed entries mixed or not; the list L so decoded, sent alone in unpacked
\* form and sent alone in packed form, decodes to L both times.
C5_PackedUnpacked ==
    (Decoded /\ Complete(wire)) =>
        /\ call.ok
        /\ msg.sub_type_ = Concat([i \in 1..Len(wire) |-> wire[i].sub])
        /\ LET u == MergePartialFromCodedStream(SharedCtor, UnpackedForm(msg.sub_type_))
               p == MergePartialFromCodedStream(SharedCtor, PackedForm(msg.sub_type_))
           IN  /\ u.ok /\ p.ok
               /\ u.msg.sub_type_ = msg.sub_type_
               /\ p.msg = u.msg

C5_Witness ==
    /\ Decoded
    /\ Len(wire) = 2
    /\ wire[1].bytes = <<56, 6>>
    /\ wire[2].bytes = <<58, 2, 5, 6>>
    /\ msg.sub_type_ = <<6, 5, 6>>
    /\ msg.has_bits = 0

Recognized(f) == f.class \notin {"number", "wiretype"}

EndAt(w, i) == w[i].class = "end" /\ Complete(SubSeq(w, 1, i - 1))

\* C12: when the tag read at a field boundary is 0, decode returns success:
\* at a zero byte the descriptor is what the fields before that byte decode
\* to, with their presence bits, sub_type values and unknown entries, the
\* zero byte is the last byte consumed and whatever follows it, malformed or
\* not, has no effect; at the end of a stream of complete fields decode
\* returns success with the whole input consumed.
C12_ZeroTagEnds ==
    Decoded =>
        /\ \A i \in 1..Len(wire) :
               EndAt(wire, i) =>
                   LET before == SubSeq(wire, 1, i - 1)
                       r == MergePartialFromCodedStream(SharedCtor, Flatten(before))
                   IN  /\ call.ok
                       /\ r.ok
                       /\ msg = r.msg
                       /\ \A n \in 1..6 :
                              HasBit(msg.has_bits, Mask(n))
                                  <=> \E j \in 1..(i - 1) :
                                          /\ wire[j].class = "typed"
                                          /\ wire[j].number = n
                       /\ msg.sub_type_ = Concat([j \in 1..(i - 1) |-> wire[j].sub])
                       /\ StoreNumbers(msg) = Captured(before)
                       /\ MergePartialFromCodedStream(SharedCtor, input).pos
                              = Len(Flatten(before)) + 2
        /\ Complete(wire) =>
               /\ call.ok
               /\ MergePartialFromCodedStream(SharedCtor, input).pos = Len(input) + 1

C12_Witness ==
    /\ Decoded
    /\ call.ok
    /\ input = <<0, 8, 5>>
    /\ msg = SharedCtor

----------------------------------------------------------------------------
(* Properties of the schema registration (SpecOnce).                        *)

\* C11: under every interleaving of the dynamic initializer and the other
\* callers, AddDescriptorsImpl and protobuf_AssignDescriptors are each started
\* at most once; a caller that has returned from AddDescriptors finds
\* AddDescriptorsImpl run once to its end, a caller that has returned from
\* protobuf_AssignDescriptorsOnce finds both bodies run once to their end;
\* calls that come later start no body again.
C11_RegisteredOnce ==
    /\ ran.AddDescriptorsImpl.started <= 1
    /\ ran.protobuf_AssignDescriptors.started <= 1
    /\ \A t \in Threads :
           /\ threads[t].last = "AddDescriptors"
                  => /\ ran.AddDescriptorsImpl.started = 1
                     /\ ran.AddDescriptorsImpl.finished = 1
           /\ threads[t].last = "protobuf_AssignDescriptorsOnce"
                  => /\ ran.protobuf_AssignDescriptors.started = 1
                     /\ ran.protobuf_AssignDescriptors.finished = 1
                     /\ ran.AddDescriptorsImpl.finished = 1

\* the initializer and both other threads have returned, one of them having
\* waited at neither flag and run neither body
C11_Witness ==
    /\ threads[0].last = "AddDescriptors"
    /\ threads[1].last = "protobuf_AssignDescriptorsOnce"
    /\ threads[1].calls = MaxCalls
    /\ threads[2].last = "AddDescriptors"
    /\ \A t \in Threads : threads[t].stack = <<>>
    /\ ran.AddDescriptorsImpl.finished = 1
    /\ ran.protobuf_AssignDescriptors.finished = 1

====
